---- MODULE Spec2Model ----
(***************************************************************************)
(* GeoLocator (src/geolocator.py): a proxy list is downloaded to a local   *)
(* file, a random sample of its ip:port lines becomes ip_to_port, a batch  *)
(* geolocation service resolves the sampled ips into location_data, and    *)
(* find_closest_countries ranks the records by distance to a target.       *)
(*                                                                         *)
(* Text is a sequence of one-character strings, so that str.strip,         *)
(* str.split and file.readlines are computed as Python computes them.      *)
(* Every public method is one action; setup() is the composition of the    *)
(* methods it calls.  An exception that leaves a method is the event       *)
(* "raise ..." at the end of the call's log, with the assignments made     *)
(* before it kept.                                                         *)
(***************************************************************************)
EXTENDS Integers, Sequences, FiniteSets, TLC

VARIABLES sample_size, ip_to_port, location_data, is_download_successful,
          file, lastOp, log, result, n_read, attempts_arg, ip_fresh, loc_fresh,
          fetched

vars == <<sample_size, ip_to_port, location_data, is_download_successful,
          file, lastOp, log, result, n_read, attempts_arg, ip_fresh, loc_fresh,
          fetched>>

(***************************************************************************)
(* Bounds of the model.                                                    *)
(***************************************************************************)
\* lines of a well-formed proxy list served by the feed
MaxLines == 2
\* records in one answer of the geolocation service
MaxRecords == 3
\* the attempts argument of a direct retrieve_location_data call
MaxAttempts == 2
\* coordinates are drawn from 0..MaxCoord
MaxCoord == 1

\* the sample_size argument of the constructor
SampleSize == 2
\* the default of retrieve_location_data's attempts parameter
DefaultAttempts == 3

(***************************************************************************)
(* Python values.                                                          *)
(***************************************************************************)
\* None, and a value that is not None (a dict, a list, the file's text)
NoneVal == [none |-> TRUE, val |-> <<>>]
Some(v) == [none |-> FALSE, val |-> v]

Min(a, b) == IF a <= b THEN a ELSE b

\* characters str.strip() removes
Whitespace == {" ", "\n"}

RECURSIVE LStrip(_)
LStrip(s) ==
    IF s = <<>> THEN <<>>
    ELSE IF Head(s) \in Whitespace THEN LStrip(Tail(s)) ELSE s

RECURSIVE RStrip(_)
RStrip(s) ==
    IF s = <<>> THEN <<>>
    ELSE IF s[Len(s)] \in Whitespace THEN RStrip(SubSeq(s, 1, Len(s) - 1)) ELSE s

\* str.strip()
Strip(s) == RStrip(LStrip(s))

\* index of the first occurrence of character c in s, 0 when there is none
IndexOf(s, c) ==
    IF \E i \in 1..Len(s) : s[i] = c
    THEN CHOOSE i \in 1..Len(s) : s[i] = c /\ \A j \in 1..(i - 1) : s[j] # c
    ELSE 0

\* str.split(sep): cut at every occurrence of sep; always at least one part
RECURSIVE Split(_, _)
Split(s, sep) ==
    LET i == IndexOf(s, sep)
    IN  IF i = 0 THEN <<s>>
        ELSE <<SubSeq(s, 1, i - 1)>> \o Split(SubSeq(s, i + 1, Len(s)), sep)

\* file.readlines(): the lines of the text, each with its line break
RECURSIVE ReadLines(_)
ReadLines(s) ==
    LET i == IndexOf(s, "\n")
    IN  IF s = <<>> THEN <<>>
        ELSE IF i = 0 THEN <<s>>
        ELSE <<SubSeq(s, 1, i)>> \o ReadLines(SubSeq(s, i + 1, Len(s)))

\* ParseLines with the strip() forgotten: the line break stays in the port
ParseLinesUnstripped(text) ==
    LET lines == ReadLines(text)
    IN  [i \in 1..Len(lines) |-> Split(lines[i], ":")]

\* the list comprehension of read_ip_addresses_from_file
ParseLines(text) ==
    LET lines == ReadLines(text)
    IN  [i \in 1..Len(lines) |-> Split(Strip(lines[i]), ":")]

(***************************************************************************)
(* The proxy list feed.                                                    *)
(***************************************************************************)
IpA == <<"1", ".", "2">>
IpB == <<"5">>
IPs == {IpA, IpB}
Ports == {<<"8", "0">>, <<"9">>}
\* an (ip, port) pair
ProxyEntries == {<<ip, port>> : ip \in IPs, port \in Ports}

RECURSIVE SeqsUpTo(_, _)
SeqsUpTo(S, n) ==
    IF n = 0 THEN {<<>>}
    ELSE LET shorter == SeqsUpTo(S, n - 1)
         IN  shorter \cup {Append(s, x) : s \in {t \in shorter : Len(t) = n - 1}, x \in S}

EntryLists == SeqsUpTo(ProxyEntries, MaxLines)

\* the text of a list of entries: one "ip:port" line each, the last line
\* with or without its line break
RECURSIVE Serialize(_, _)
Serialize(entries, lastBreak) ==
    IF entries = <<>> THEN <<>>
    ELSE Head(entries)[1] \o <<":">> \o Head(entries)[2]
         \o (IF Len(entries) > 1 \/ lastBreak THEN <<"\n">> ELSE <<>>)
         \o Serialize(Tail(entries), lastBreak)

WellFormedFeeds == {Serialize(l, b) : l \in EntryLists, b \in BOOLEAN}

\* bodies that are not lists of ip:port lines: a blank line after an
\* entry, a line with no colon, a blank line alone, a line with padding
\* and two colons
MalformedFeeds ==
    { IpA \o <<":", "9", "\n", "\n">>,
      <<"5", "\n">>,
      <<"\n">>,
      <<" ">> \o IpB \o <<":", "9", ":", "8", " ", "\n">> }

AllFeeds == WellFormedFeeds \cup MalformedFeeds

\* the bodies the feed serves in the life-cycle specification
Feeds ==
    { <<>>,
      Serialize(<<<<IpA, <<"9">>>>>>, TRUE),
      Serialize(<<<<IpA, <<"8", "0">>>>, <<IpB, <<"9">>>>>>, TRUE),
      Serialize(<<<<IpB, <<"8", "0">>>>, <<IpB, <<"9">>>>>>, FALSE),
      IpA \o <<":", "9", "\n", "\n">> }

\* the random source of one random.sample call on a population of n: an
\* order of its positions
PermsOf(n) == {p \in [1..n -> 1..n] : \A i, j \in 1..n : p[i] = p[j] => i = j}

\* how many lines readlines() finds in the file f (none in a missing file)
FileLines(f) == IF f.none THEN 0 ELSE Len(ReadLines(f.val))

(***************************************************************************)
(* The geolocation service and the distance.                               *)
(***************************************************************************)
\* an ip the service may answer about that was never sampled
IpZ == <<"7">>
Coords == {<<lat, 0>> : lat \in 0..MaxCoord} \cup {<<0, 1>>}
LocationRecords ==
    {[query |-> q, country |-> "France", lat |-> c[1], lon |-> c[2]] :
        q \in IPs \cup {IpZ}, c \in {<<lat, 0>> : lat \in 0..MaxCoord}}

\* every answer of the service: any list of records, in any order
AllResponses == SeqsUpTo(LocationRecords, MaxRecords)

\* the answers of the service in the life-cycle specification
Responses ==
    { <<>>,
      <<[query |-> IpA, country |-> "France", lat |-> 1, lon |-> 0]>>,
      <<[query |-> IpB, country |-> "France", lat |-> 2, lon |-> 0],
        [query |-> IpZ, country |-> "France", lat |-> 0, lon |-> 0]>> }

\* the outcomes of the successive POST requests: TRUE is a good answer
Patterns(k) == [1..k -> BOOLEAN]

Abs(x) == IF x < 0 THEN -x ELSE x

\* geopy's great_circle on the coordinate grid: a distance that is zero
\* between equal points, symmetric, and totally ordered
great_circle(p, q) == Abs(p[1] - q[1]) + Abs(p[2] - q[2])

(***************************************************************************)
(* The object and the file, as one record; the last seven fields observe the *)
(* call in progress and are no fields of the object.                       *)
(***************************************************************************)
\* GeoLocator.__init__; the file of an earlier run does not exist
InitState ==
    [ sample_size |-> SampleSize,
      ip_to_port |-> NoneVal,
      location_data |-> NoneVal,
      is_download_successful |-> FALSE,
      file |-> NoneVal,
      log |-> <<>>,
      result |-> <<>>,
      n_read |-> 0,
      attempts_arg |-> 0,
      ip_fresh |-> FALSE,
      loc_fresh |-> FALSE,
      fetched |-> FALSE ]

\* the object's own fields
Fields(st) ==
    <<st.sample_size, st.ip_to_port, st.location_data, st.is_download_successful>>

\* a public call begins: nothing has been printed, returned or assigned by it
Begin(st) ==
    [st EXCEPT !.log = <<>>, !.result = <<>>, !.n_read = 0, !.attempts_arg = 0,
               !.ip_fresh = FALSE, !.loc_fresh = FALSE]

Emit(st, events) == [st EXCEPT !.log = @ \o events]

\* the call was left by an exception
Raised(st) ==
    st.log # <<>> /\ st.log[Len(st.log)] \in {"raise IndexError", "raise AttributeError", "raise TypeError"}

\* how many times event e is in the call's log
Count(l, e) == Cardinality({i \in 1..Len(l) : l[i] = e})

Did(l, e) == \E i \in 1..Len(l) : l[i] = e

\* dl is the body the feed answers with, or NoneVal when the request fails
retrieve_ip_addresses(st, dl) ==
    IF dl.none
    THEN Emit(st, <<"GET failed", "print Failed to download IP addresses: e">>)
    ELSE [Emit(st, <<"GET ok">>) EXCEPT
             !.file = Some(dl.val),
             !.is_download_successful = TRUE,
             !.fetched = TRUE]

read_ip_addresses_from_file(st) ==
    IF st.file.none
    THEN [Emit(st, <<"read", "print Exception", "print Please try again.">>) EXCEPT
             !.result = <<>>, !.n_read = 0]
    ELSE LET addresses_and_ports == ParseLines(st.file.val)
         IN  [Emit(st, <<"read">>) EXCEPT
                 !.result = addresses_and_ports,
                 !.n_read = Len(addresses_and_ports)]

\* RandomSample drawing with replacement, as random.choices would
RandomChoices(population, k, perm) == [j \in 1..k |-> population[perm[1]]]

\* random.sample(population, k) for 0 <= k <= len(population): the first k
\* positions of the population in the order perm draws them
RandomSample(population, k, perm) == [j \in 1..k |-> population[perm[j]]]

get_random_sample_of_addresses(st, perm) ==
    LET s1 == read_ip_addresses_from_file(st)
        addresses_and_ports == s1.result
        k == Min(s1.sample_size, Len(addresses_and_ports))
    IN  [Emit(s1, <<"sample">>) EXCEPT
            !.sample_size = k,
            !.result = RandomSample(addresses_and_ports, k, perm)]

\* {item[0]: item[1] for item in items}: a later item replaces an earlier
\* one with the same key
RECURSIVE DictOf(_)
DictOf(items) ==
    IF items = <<>> THEN <<>>
    ELSE LET last == items[Len(items)]
             rest == DictOf(SubSeq(items, 1, Len(items) - 1))
         IN  [key \in DOMAIN rest \cup {last[1]} |->
                 IF key = last[1] THEN last[2] ELSE rest[key]]

\* load_ip_port_combinations updating the dict of the earlier cycle instead
\* of replacing it
load_ip_port_combinations_merging(st, perm) ==
    LET s1 == get_random_sample_of_addresses(st, perm)
        sample_addresses_ports == s1.result
        old == st.ip_to_port.val
        new == DictOf(sample_addresses_ports)
    IN  IF \E i \in 1..Len(sample_addresses_ports) : Len(sample_addresses_ports[i]) < 2
        THEN [Emit(s1, <<"load", "raise IndexError">>) EXCEPT !.result = <<>>]
        ELSE [Emit(s1, <<"load">>) EXCEPT
                 !.ip_to_port = Some([key \in DOMAIN old \cup DOMAIN new |->
                                         IF key \in DOMAIN new THEN new[key] ELSE old[key]]),
                 !.ip_fresh = TRUE,
                 !.location_data = Some(<<>>),
                 !.loc_fresh = TRUE,
                 !.result = <<>>]

load_ip_port_combinations(st, perm) ==
    LET s1 == get_random_sample_of_addresses(st, perm)
        sample_addresses_ports == s1.result
    IN  IF \E i \in 1..Len(sample_addresses_ports) : Len(sample_addresses_ports[i]) < 2
        THEN [Emit(s1, <<"load", "raise IndexError">>) EXCEPT !.result = <<>>]
        ELSE [Emit(s1, <<"load">>) EXCEPT
                 !.ip_to_port = Some(DictOf(sample_addresses_ports)),
                 !.ip_fresh = TRUE,
                 !.location_data = Some(<<>>),
                 !.loc_fresh = TRUE,
                 !.result = <<>>]

\* the while loop of retrieve_location_data
RECURSIVE RetryLoop(_, _, _, _)
RetryLoop(st, attempts, outcomes, response) ==
    IF attempts > 0
    THEN IF Head(outcomes)
         THEN [Emit(st, <<"POST ok">>) EXCEPT
                  !.location_data = Some(response), !.loc_fresh = TRUE]
         ELSE RetryLoop(Emit(st, <<"POST failed", "print Request failed", "sleep">>),
                        attempts - 1, Tail(outcomes), response)
    ELSE [Emit(st, <<"print Failed to retrieve location data">>) EXCEPT
             !.location_data = Some(<<>>), !.loc_fresh = TRUE]

\* RetryLoop without the final location_data = []
RECURSIVE RetryLoopKeepsAnswer(_, _, _, _)
RetryLoopKeepsAnswer(st, attempts, outcomes, response) ==
    IF attempts > 0
    THEN IF Head(outcomes)
         THEN [Emit(st, <<"POST ok">>) EXCEPT
                  !.location_data = Some(response), !.loc_fresh = TRUE]
         ELSE RetryLoopKeepsAnswer(
                  Emit(st, <<"POST failed", "print Request failed", "sleep">>),
                  attempts - 1, Tail(outcomes), response)
    ELSE Emit(st, <<"print Failed to retrieve location data">>)

\* retrieve_location_data leaving the earlier answer in place when every
\* attempt fails
retrieve_location_data_keeps_answer(st, attempts, outcomes, response) ==
    LET s1 == [Emit(st, <<"resolve">>) EXCEPT !.attempts_arg = attempts]
    IN  IF s1.ip_to_port.none
        THEN Emit(s1, <<"raise AttributeError">>)
        ELSE RetryLoopKeepsAnswer(s1, attempts, outcomes, response)

retrieve_location_data(st, attempts, outcomes, response) ==
    LET s1 == [Emit(st, <<"resolve">>) EXCEPT !.attempts_arg = attempts]
    IN  IF s1.ip_to_port.none
        THEN Emit(s1, <<"raise AttributeError">>)
        ELSE RetryLoop(s1, attempts, outcomes, response)

\* setup without the test of is_download_successful
setup_unconditional(st, dl, perm, outcomes, response) ==
    LET s1 == retrieve_ip_addresses(st, dl)
        s2 == load_ip_port_combinations(s1, perm)
        s3 == retrieve_location_data(s2, DefaultAttempts, outcomes, response)
    IN  IF Raised(s2) THEN s2
        ELSE IF Raised(s3) THEN s3
        ELSE [s3 EXCEPT !.is_download_successful = FALSE]

setup(st, dl, perm, outcomes, response) ==
    LET s1 == retrieve_ip_addresses(st, dl)
    IN  IF s1.is_download_successful
        THEN LET s2 == load_ip_port_combinations(s1, perm)
             IN  IF Raised(s2) THEN s2
                 ELSE LET s3 == retrieve_location_data(s2, DefaultAttempts, outcomes, response)
                      IN  IF Raised(s3) THEN s3
                          ELSE [s3 EXCEPT !.is_download_successful = FALSE]
        ELSE Emit(s1, <<"print Failed to download IP addresses. Please check">>)

\* reset also putting sample_size back to the constructor's argument
reset_restoring_sample_size(st) ==
    [st EXCEPT
        !.sample_size = SampleSize,
        !.ip_to_port = NoneVal,
        !.location_data = NoneVal,
        !.is_download_successful = FALSE,
        !.ip_fresh = TRUE,
        !.loc_fresh = TRUE,
        !.fetched = FALSE]

reset(st) ==
    [st EXCEPT
        !.ip_to_port = NoneVal,
        !.location_data = NoneVal,
        !.is_download_successful = FALSE,
        !.ip_fresh = TRUE,
        !.loc_fresh = TRUE,
        !.fetched = FALSE]

\* SortByDistance with the sort forgotten
Unsorted(l) == l

\* list.sort(key=Distance): stable, by insertion
RECURSIVE SortByDistance(_)
SortByDistance(l) ==
    IF l = <<>> THEN <<>>
    ELSE LET sorted == SortByDistance(SubSeq(l, 1, Len(l) - 1))
             x == l[Len(l)]
             n == Cardinality({i \in 1..Len(sorted) : sorted[i].Distance <= x.Distance})
         IN  SubSeq(sorted, 1, n) \o <<x>> \o SubSeq(sorted, n + 1, Len(sorted))

\* the for loop of find_closest_countries
RECURSIVE ClosestOf(_, _, _)
ClosestOf(locations, dict, target_coords) ==
    IF locations = <<>> THEN <<>>
    ELSE LET location == Head(locations)
             distance == great_circle(target_coords, <<location.lat, location.lon>>)
             rest == ClosestOf(Tail(locations), dict, target_coords)
         IN  IF location.query \in DOMAIN dict
             THEN <<[Country |-> location.country, ip |-> location.query,
                     port |-> dict[location.query], Distance |-> distance]>> \o rest
             ELSE rest

find_closest_countries(st, target_coords) ==
    IF st.location_data.none \/ st.location_data.val = <<>>
    THEN [Emit(st, <<"rank", "print No data retrieved from request!">>) EXCEPT
             !.result = <<>>]
    ELSE IF st.ip_to_port.none
    THEN Emit(st, <<"rank", "raise TypeError">>)
    ELSE [Emit(st, <<"rank">>) EXCEPT !.result =
             SortByDistance(ClosestOf(st.location_data.val, st.ip_to_port.val, target_coords))]

(***************************************************************************)
(* The public methods as actions.                                          *)
(***************************************************************************)
Cur ==
    [ sample_size |-> sample_size,
      ip_to_port |-> ip_to_port,
      location_data |-> location_data,
      is_download_successful |-> is_download_successful,
      file |-> file,
      log |-> log,
      result |-> result,
      n_read |-> n_read,
      attempts_arg |-> attempts_arg,
      ip_fresh |-> ip_fresh,
      loc_fresh |-> loc_fresh,
      fetched |-> fetched ]

Becomes(st) ==
    /\ sample_size' = st.sample_size
    /\ ip_to_port' = st.ip_to_port
    /\ location_data' = st.location_data
    /\ is_download_successful' = st.is_download_successful
    /\ file' = st.file
    /\ log' = st.log
    /\ result' = st.result
    /\ n_read' = st.n_read
    /\ attempts_arg' = st.attempts_arg
    /\ ip_fresh' = st.ip_fresh
    /\ loc_fresh' = st.loc_fresh
    /\ fetched' = st.fetched

Starts(st) ==
    /\ sample_size = st.sample_size
    /\ ip_to_port = st.ip_to_port
    /\ location_data = st.location_data
    /\ is_download_successful = st.is_download_successful
    /\ file = st.file
    /\ log = st.log
    /\ result = st.result
    /\ n_read = st.n_read
    /\ attempts_arg = st.attempts_arg
    /\ ip_fresh = st.ip_fresh
    /\ loc_fresh = st.loc_fresh
    /\ fetched = st.fetched
    /\ lastOp = "__init__"

\* what the feed does with one GET request
Downloads(bodies) == {NoneVal} \cup {Some(b) : b \in bodies}

Setup ==
    \E dl \in Downloads(Feeds), outcomes \in Patterns(DefaultAttempts),
       response \in Responses :
        \E perm \in PermsOf(FileLines(IF dl.none THEN file ELSE dl)) :
            /\ Becomes(setup(Begin(Cur), dl, perm, outcomes, response))
            /\ lastOp' = "setup"

Reset ==
    /\ Becomes(reset(Begin(Cur)))
    /\ lastOp' = "reset"

RetrieveIpAddresses ==
    \E dl \in Downloads(Feeds) :
        /\ Becomes(retrieve_ip_addresses(Begin(Cur), dl))
        /\ lastOp' = "retrieve_ip_addresses"

ReadIpAddressesFromFile ==
    /\ Becomes(read_ip_addresses_from_file(Begin(Cur)))
    /\ lastOp' = "read_ip_addresses_from_file"

GetRandomSampleOfAddresses ==
    \E perm \in PermsOf(FileLines(file)) :
        /\ Becomes(get_random_sample_of_addresses(Begin(Cur), perm))
        /\ lastOp' = "get_random_sample_of_addresses"

LoadIpPortCombinations ==
    \E perm \in PermsOf(FileLines(file)) :
        /\ Becomes(load_ip_port_combinations(Begin(Cur), perm))
        /\ lastOp' = "load_ip_port_combinations"

RetrieveLocationData ==
    \E attempts \in 0..MaxAttempts, response \in Responses :
        \E outcomes \in Patterns(attempts) :
            /\ Becomes(retrieve_location_data(Begin(Cur), attempts, outcomes, response))
            /\ lastOp' = "retrieve_location_data"

FindClosestCountries ==
    \E target_coords \in Coords :
        /\ Becomes(find_closest_countries(Begin(Cur), target_coords))
        /\ lastOp' = "find_closest_countries"

\* the life cycle: a new object, then its public methods in any order
Init == Starts(InitState)

Next ==
    \/ Setup
    \/ Reset
    \/ RetrieveIpAddresses
    \/ ReadIpAddressesFromFile
    \/ GetRandomSampleOfAddresses
    \/ LoadIpPortCombinations
    \/ RetrieveLocationData
    \/ FindClosestCountries

Spec == Init /\ [][Next]_vars

\* the sampler on any local file: a new object with any sample_size, beside
\* a file that is missing or holds any served body
InitFile ==
    \E size \in 0..SampleSize, f \in Downloads(AllFeeds) :
        Starts([InitState EXCEPT !.sample_size = size, !.file = f])

NextFile ==
    \/ ReadIpAddressesFromFile
    \/ GetRandomSampleOfAddresses
    \/ LoadIpPortCombinations

SpecFile == InitFile /\ [][NextFile]_vars

\* every dict a sample can make
Dicts == UNION {[D -> Ports] : D \in SUBSET IPs}

\* the ranker on any sampled dict and any answer of the service
InitRank ==
    \E dict \in Dicts, response \in AllResponses :
        Starts([InitState EXCEPT
                   !.ip_to_port = Some(dict),
                   !.location_data = Some(response),
                   !.fetched = TRUE])

NextRank == FindClosestCountries

SpecRank == InitRank /\ [][NextRank]_vars

(***************************************************************************)
(* Properties.                                                             *)
(***************************************************************************)
SetupDiagnostic == "print Failed to download IP addresses. Please check"

\* the POST requests the call issued
Posts == Count(log, "POST ok") + Count(log, "POST failed")

\* the call in progress returned: no exception left it
Returned == ~Raised(Cur)

\* find_closest_countries, called next with any target, returns [] and
\* raises nothing
RankingIsEmpty ==
    \A target_coords \in Coords :
        LET after == find_closest_countries(Begin(Cur), target_coords)
        IN  after.result = <<>> /\ ~Raised(after)

\* C1: a setup() whose download fails runs neither
\* load_ip_port_combinations nor retrieve_location_data and prints its
\* "Failed to download" diagnostic exactly once, whatever was called before.
C1_FailedDownloadSkipsCycle ==
    (lastOp = "setup" /\ Did(log, "GET failed")) =>
        /\ ~Did(log, "load")
        /\ ~Did(log, "resolve")
        /\ Count(log, SetupDiagnostic) = 1

\* C2 as claimed: every retrieve_location_data(attempts=k) call issues at
\* most k POST requests and returns; when no request succeeds,
\* location_data is [] and the ranking that follows is empty.
C2_ResolveAlwaysReturns ==
    lastOp = "retrieve_location_data" =>
        /\ Returned
        /\ Posts <= attempts_arg
        /\ (~Did(log, "POST ok") => location_data = Some(<<>>) /\ RankingIsEmpty)

\* C2 as amended: a retrieve_location_data(attempts=k) call made while
\* ip_to_port is a dict issues at most k POST requests and returns, with
\* location_data = [] and an empty ranking to follow when no request
\* succeeds; made while ip_to_port is None it raises AttributeError before
\* any request.
C2_ResolveReturnsOnceSampled ==
    lastOp = "retrieve_location_data" =>
        IF ip_to_port.none
        THEN Raised(Cur) /\ Posts = 0
        ELSE /\ Returned
             /\ Posts <= attempts_arg
             /\ (Did(log, "POST ok") => Count(log, "POST ok") = 1 /\ log[Len(log)] = "POST ok")
             /\ (~Did(log, "POST ok") =>
                    /\ Posts = attempts_arg
                    /\ location_data = Some(<<>>)
                    /\ RankingIsEmpty)

\* every attempt of a direct call with the most attempts failed
C2_Witness ==
    /\ lastOp = "retrieve_location_data"
    /\ ~ip_to_port.none
    /\ attempts_arg = MaxAttempts
    /\ Count(log, "POST failed") = MaxAttempts
    /\ location_data = Some(<<>>)

\* C3 as claimed: ip_to_port is populated only after a successful fetch
\* since the last reset, and location_data holds an answer of the service
\* only once ip_to_port is populated.
C3_StatesOnlyInOrder ==
    /\ (~ip_to_port.none /\ ip_to_port.val # <<>>) => fetched
    /\ (~location_data.none /\ location_data.val # <<>>) => ~ip_to_port.none

\* C3 as amended: ip_to_port becomes a dict only in
\* load_ip_port_combinations, which setup() runs only after a successful
\* fetch since the last reset but which a direct call runs with no fetch
\* at all; location_data is not None only while ip_to_port is a dict.
C3_SampledBeforeResolved ==
    /\ (ip_fresh /\ ~ip_to_port.none) =>
           /\ lastOp \in {"setup", "load_ip_port_combinations"}
           /\ Did(log, "load")
    /\ (lastOp = "setup" /\ Did(log, "load")) => fetched
    /\ ~location_data.none => ~ip_to_port.none

\* sampled and resolved by direct calls, with no fetch since the reset
C3_Witness ==
    /\ lastOp = "retrieve_location_data"
    /\ ~fetched
    /\ ip_to_port.val # <<>>
    /\ location_data.val # <<>>

\* result is in non-decreasing order of Distance
SortedByDistance(l) ==
    \A i \in 1..(Len(l) - 1) : l[i].Distance <= l[i + 1].Distance

\* C4: the list find_closest_countries returns is sorted non-decreasing by
\* Distance, each entry's ip is a key of ip_to_port with the port stored
\* there, and the records whose ip is no key are dropped, the others kept,
\* with no error.
C4_RankingSortedAndJoined ==
    lastOp = "find_closest_countries" =>
        /\ Returned
        /\ SortedByDistance(result)
        /\ \A i \in 1..Len(result) :
               /\ result[i].ip \in DOMAIN ip_to_port.val
               /\ result[i].port = ip_to_port.val[result[i].ip]
        /\ \A ip \in IPs \cup {IpZ} :
               Cardinality({i \in 1..Len(result) : result[i].ip = ip})
                 = IF ip \in DOMAIN ip_to_port.val
                   THEN Cardinality({i \in 1..Len(location_data.val) :
                                        location_data.val[i].query = ip})
                   ELSE 0

\* two records were ranked in another order than the service gave them and
\* a third was dropped
C4_Witness ==
    /\ lastOp = "find_closest_countries"
    /\ Len(result) = 2
    /\ Len(location_data.val) = 3
    /\ result[1].Distance < result[2].Distance
    /\ result[1].ip # result[2].ip
    /\ \E i, j \in 1..3 :
           /\ i < j
           /\ location_data.val[i].query = result[2].ip
           /\ location_data.val[j].query = result[1].ip

\* how many times x is in the list l
Occurrences(l, x) == Cardinality({i \in 1..Len(l) : l[i] = x})

\* C5: get_random_sample_of_addresses returns min(S, N) entries for the
\* sample_size S it finds and the N entries read, each entry of the file
\* taken at most as often as the file holds it; no entry of an empty or
\* missing file, and no exception.
C5_SampleSizeAndOrigin ==
    [][lastOp' = "get_random_sample_of_addresses" =>
          /\ ~Raised(Cur)'
          /\ n_read' = Len(ParseLines(IF file.none THEN <<>> ELSE file.val))
          /\ Len(result') = Min(sample_size, n_read')
          /\ \A i \in 1..Len(result') :
                 Occurrences(result', result'[i])
                   <= Occurrences(ParseLines(file.val), result'[i])]_vars

\* fewer entries were sampled than read
C5_Witness ==
    /\ lastOp = "get_random_sample_of_addresses"
    /\ Len(result) >= 1
    /\ n_read > Len(result)

\* C6: read_ip_addresses_from_file and load_ip_port_combinations return
\* normally whatever the local file holds: missing, or with a line that
\* has no ':'.
C6_MalformedFileRecovered ==
    lastOp \in {"read_ip_addresses_from_file", "load_ip_port_combinations"} =>
        Returned

\* every pair of the dict is an entry of the file
FromFile(dict, f) ==
    \A ip \in DOMAIN dict :
        \E i \in 1..FileLines(f) :
            LET item == ParseLines(f.val)[i]
            IN  Len(item) >= 2 /\ item[1] = ip /\ item[2] = dict[ip]

\* C7 as claimed: after any setup() that returns, ip_to_port and
\* location_data hold no pair and no record made by an earlier call.
C7_SetupAlwaysRebuilds ==
    (lastOp = "setup" /\ Returned) =>
        /\ (ip_to_port.val # <<>> => ip_fresh)
        /\ (location_data.val # <<>> => loc_fresh)

\* C7 as amended: a setup() that returns after running
\* load_ip_port_combinations has rebuilt both: ip_to_port holds only pairs
\* sampled from the file in this call and location_data the answer of
\* this call (or []); a setup() that skips the cycle leaves ip_to_port and
\* location_data as the earlier calls left them.
C7_SetupRebuildsOrKeeps ==
    [][(lastOp' = "setup" /\ ~Raised(Cur)') =>
          IF Did(log', "load")
          THEN /\ ip_fresh' /\ loc_fresh'
               /\ ~ip_to_port'.none
               /\ FromFile(ip_to_port'.val, file')
               /\ Cardinality(DOMAIN ip_to_port'.val) <= sample_size'
               /\ Did(log', "resolve")
               /\ (~Did(log', "POST ok") => location_data' = Some(<<>>))
          ELSE /\ ip_to_port' = ip_to_port
               /\ location_data' = location_data]_vars

\* a setup() whose download failed returned with the answer of an earlier
\* cycle still in place
C7_Witness ==
    /\ lastOp = "setup"
    /\ ~Did(log, "load")
    /\ location_data.val # <<>>
    /\ ip_to_port.val # <<>>

\* C8: after reset() the object is as __init__ left it: ip_to_port and
\* location_data are None, is_download_successful is False, and a setup()
\* does to it what it does to a new object with the same configuration.
C8_ResetIsUninitialized ==
    lastOp = "reset" =>
        /\ ip_to_port.none
        /\ location_data.none
        /\ ~is_download_successful
        /\ \A dl \in Downloads(Feeds), response \in Responses :
               \A perm \in PermsOf(FileLines(IF dl.none THEN file ELSE dl)) :
                   LET outcomes == [i \in 1..DefaultAttempts |-> TRUE]
                       new == [InitState EXCEPT !.file = file]
                   IN  Fields(setup(Begin(Cur), dl, perm, outcomes, response))
                         = Fields(setup(Begin(new), dl, perm, outcomes, response))

\* C9: read_ip_addresses_from_file gives back the list of (ip, port) pairs
\* whose ip:port lines the file holds, one 2-tuple per line, in file order.
C9_ReadRoundTrip ==
    lastOp = "read_ip_addresses_from_file" =>
        \A entries \in EntryLists, lastBreak \in BOOLEAN :
            file = Some(Serialize(entries, lastBreak)) =>
                result = entries /\ Returned

\* a file of MaxLines different lines was read back
C9_Witness ==
    /\ lastOp = "read_ip_addresses_from_file"
    /\ result \in EntryLists
    /\ Len(result) = MaxLines
    /\ result[1] # result[MaxLines]
    /\ file = Some(Serialize(result, TRUE))

\* C10: sample_size never grows: a call that samples leaves it at
\* min(sample_size, entries read), every other call (reset() and a setup()
\* that skips the cycle among them) leaves it alone, and a dict loaded
\* later has at most sample_size keys.
C10_SampleSizeNeverGrows ==
    [][/\ sample_size' <= sample_size
       /\ sample_size' = IF Did(log', "sample")
                         THEN Min(sample_size, n_read')
                         ELSE sample_size
       /\ (Did(log', "load") /\ ~Raised(Cur)') =>
              Cardinality(DOMAIN ip_to_port'.val) <= sample_size']_vars

\* a later setup() read more entries than the shrunken sample_size let it
\* sample
C10_Witness ==
    /\ lastOp = "setup"
    /\ Did(log, "sample")
    /\ sample_size < SampleSize
    /\ sample_size >= 1
    /\ n_read > sample_size

====
